---- MODULE Spec2Model ----
(***************************************************************************)
(* Model of wikidump/extractors/wikibreaks.py: the two regular-expression  *)
(* shapes built for every wikibreak name, the scan of a text by            *)
(* wikibreaks_extractor and the parsing of the captured options.           *)
(*                                                                         *)
(* A string is a sequence of one-character strings.  Offsets reported in   *)
(* spans are Python offsets (0-based, end exclusive); positions used by    *)
(* the matching operators are 1-based indices into the sequence.           *)
(***************************************************************************)
EXTENDS Integers, Sequences, FiniteSets, TLC

VARIABLES
    all_wikibreaks_words,  \* the configured vocabulary (a sequence of names)
    text,                  \* the argument of wikibreaks_extractor
    pattern,               \* index in WIKIBREAKS_REs of the pattern being scanned
    pos,                   \* offset at which finditer resumes its search
    matches,               \* the match objects the loop body has received
    yielded,               \* the CaptureResults yielded so far
    errors,                \* the calls made to write_error
    pc                     \* "scan" while the generator runs, "done" once it ended

vars == <<all_wikibreaks_words, text, pattern, pos, matches, yielded, errors, pc>>

----------------------------------------------------------------------------
(* Characters *)

\* \s of the regular expressions and the whitespace of str.strip
IsSpace(c) == c \in {" ", "\n"}

\* the group (?: \s | \_ ) of both patterns
IsSpaceOrUnderscore(c) == IsSpace(c) \/ c = "_"

\* str.lower on one character
Lower(c) ==
    CASE c = "A" -> "a"
      [] c = "B" -> "b"
      [] c = "X" -> "x"
      [] OTHER -> c

\* str.lower
LowerStr(s) == [i \in 1..Len(s) |-> Lower(s[i])]

\* a pattern character against a text character, case-sensitively
\* (the comparison the patterns would make without re.IGNORECASE)
CharEqCaseSensitive(p, c) == p = c

\* a pattern character against a text character under re.IGNORECASE
CharEq(p, c) == Lower(p) = Lower(c)

----------------------------------------------------------------------------
(* Construction of the patterns *)

RECURSIVE VerboseLiteral(_)
\* what re.VERBOSE leaves of a name substituted for %s: whitespace of the
\* pattern text is not part of the pattern
VerboseLiteral(w) ==
    IF w = <<>> THEN <<>>
    ELSE IF IsSpace(Head(w)) THEN VerboseLiteral(Tail(w))
    ELSE <<Head(w)>> \o VerboseLiteral(Tail(w))

\* the literal substituted in a pattern: wikibreak_pattern % (w_word.lower())
\* compiled with re.VERBOSE
CompiledWord(w) == VerboseLiteral(LowerStr(w))

\* WIKIBREAKS_PATTERN_REs + WIKIBREAKS_EMPTY_PATTERN_REs, as it would be if
\* the two patterns of one word were adjacent
WIKIBREAKS_REs_interleaved(words) ==
    [i \in 1..(2 * Len(words)) |->
        [shape |-> IF i % 2 = 1 THEN "pattern" ELSE "empty",
         word  |-> (i + 1) \div 2,
         name  |-> CompiledWord(words[(i + 1) \div 2])]]

\* WIKIBREAKS_PATTERN_REs + WIKIBREAKS_EMPTY_PATTERN_REs
WIKIBREAKS_REs(words) ==
    [i \in 1..(2 * Len(words)) |->
        IF i <= Len(words)
        THEN [shape |-> "pattern", word |-> i, name |-> CompiledWord(words[i])]
        ELSE [shape |-> "empty", word |-> i - Len(words),
              name |-> CompiledWord(words[i - Len(words)])]]

----------------------------------------------------------------------------
(* Matching *)

NoMatch == [found |-> FALSE]

\* \{\{ at position s
OpenAt(t, s) == s + 1 <= Len(t) /\ t[s] = "{" /\ t[s + 1] = "{"

\* \}\} at position e
CloseAt(t, e) == e + 1 <= Len(t) /\ t[e] = "}" /\ t[e + 1] = "}"

RECURSIVE SkipSpaces(_, _)
\* (?: \s | \_ )* from position p: the position after the run.  The group is
\* greedy, and what follows it in either pattern (the first character of the
\* word, a pipe, a closing brace) is never a character of the run while the
\* word holds no underscore, so the run taken is the maximal one.
SkipSpaces(t, p) ==
    IF p <= Len(t) /\ IsSpaceOrUnderscore(t[p]) THEN SkipSpaces(t, p + 1) ELSE p

\* the literal word at position p (re.IGNORECASE)
WordAt(t, p, name) ==
    /\ p + Len(name) - 1 <= Len(t)
    /\ \A k \in 1..Len(name) : CharEq(name[k], t[p + k - 1])

\* \|? in place of \| : the position after an optional pipe
AfterPipeOptional(t, q) == IF q <= Len(t) /\ t[q] = "|" THEN q + 1 ELSE q

\* \| at position q: the position after it, 0 when there is no pipe
AfterPipe(t, q) == IF q <= Len(t) /\ t[q] = "|" THEN q + 1 ELSE 0

\* the positions e >= b at which [^{]* started at b can stop with \}\} next
CloseCandidates(t, b) ==
    {e \in b..Len(t) : CloseAt(t, e) /\ \A k \in b..(e - 1) : t[k] # "{"}

Max(S) == CHOOSE x \in S : \A y \in S : y <= x
Min(S) == CHOOSE x \in S : \A y \in S : x <= y

\* [^{]* \}\} : the class is greedy, so of the closing pairs it can reach the
\* match takes the last; 0 when there is none
OptionsEnd(t, b) ==
    IF CloseCandidates(t, b) = {} THEN 0 ELSE Max(CloseCandidates(t, b))

\* a match object: found, start() and end() as Python offsets, and the text
\* of the groups 'type' and 'options'
MatchObject(t, s, p, n, b, e) ==
    [found   |-> TRUE,
     start   |-> s - 1,
     end     |-> e + 1,
     type    |-> SubSeq(t, p, p + n - 1),
     options |-> SubSeq(t, b, e - 1)]

\* wikibreak_pattern % name, tried at position s
wikibreak_pattern(t, s, name) ==
    IF ~OpenAt(t, s) THEN NoMatch
    ELSE LET p == SkipSpaces(t, s + 2)
         IN  IF ~WordAt(t, p, name) THEN NoMatch
             ELSE LET q == SkipSpaces(t, p + Len(name))
                      b == AfterPipe(t, q)
                  IN  IF b = 0 \/ OptionsEnd(t, b) = 0 THEN NoMatch
                      ELSE MatchObject(t, s, p, Len(name), b, OptionsEnd(t, b))

\* wikibreak_empty_pattern % name, tried at position s
wikibreak_empty_pattern(t, s, name) ==
    IF ~OpenAt(t, s) THEN NoMatch
    ELSE LET p == SkipSpaces(t, s + 2)
         IN  IF ~WordAt(t, p, name) THEN NoMatch
             ELSE LET b == p + Len(name)
                      e == SkipSpaces(t, b)
                  IN  IF ~CloseAt(t, e) THEN NoMatch
                      ELSE MatchObject(t, s, p, Len(name), b, e)

\* one compiled pattern tried at position s
MatchAt(re, t, s) ==
    IF re.shape = "pattern" THEN wikibreak_pattern(t, s, re.name)
    ELSE wikibreak_empty_pattern(t, s, re.name)

RECURSIVE SearchFrom(_, _, _)
\* the search of one pattern from position s on: the match at the leftmost
\* position that has one
SearchFrom(re, t, s) ==
    IF s > Len(t) THEN NoMatch
    ELSE LET m == MatchAt(re, t, s)
         IN  IF m.found THEN m ELSE SearchFrom(re, t, s + 1)

\* the next match pattern.finditer(text) produces when its search resumes at
\* offset `from`
NextMatch(re, t, from) == SearchFrom(re, t, from + 1)

RECURSIVE finditer(_, _, _)
\* all the matches pattern.finditer(text) produces from offset `from` on:
\* leftmost first, each search resuming at the end of the previous match
finditer(re, t, from) ==
    LET m == NextMatch(re, t, from)
    IN  IF m.found THEN <<m>> \o finditer(re, t, m.end) ELSE <<>>

----------------------------------------------------------------------------
(* Options *)

RECURSIVE LStrip(_)
LStrip(s) == IF s # <<>> /\ IsSpace(Head(s)) THEN LStrip(Tail(s)) ELSE s

RECURSIVE RStrip(_)
RStrip(s) ==
    IF s # <<>> /\ IsSpace(s[Len(s)]) THEN RStrip(SubSeq(s, 1, Len(s) - 1)) ELSE s

\* str.strip()
Strip(s) == RStrip(LStrip(s))

\* str.replace('_', '')
RemoveUnderscores(s) == SelectSeq(s, LAMBDA c : c # "_")

RECURSIVE SplitFrom(_, _)
\* str.split('|'): cur is the segment being read
SplitFrom(s, cur) ==
    IF s = <<>> THEN <<cur>>
    ELSE IF Head(s) = "|" THEN <<cur>> \o SplitFrom(Tail(s), <<>>)
    ELSE SplitFrom(Tail(s), Append(cur, Head(s)))

Split(s) == SplitFrom(s, <<>>)

\* the options with every segment stripped
ParseOptionsStripped(raw) ==
    LET parsed == Split(RemoveUnderscores(Strip(raw)))
    IN  IF Len(parsed) = 1 /\ parsed[1] = <<>> THEN <<>>
        ELSE [i \in 1..Len(parsed) |-> Strip(parsed[i])]

\* match.group('options').strip().replace('_', '').split('|'), kept unless
\* it is the single empty string
ParseOptions(raw) ==
    LET parsed_options == Split(RemoveUnderscores(Strip(raw)))
    IN  IF Len(parsed_options) = 1 /\ parsed_options[1] = <<>> THEN <<>>
        ELSE parsed_options

\* check_wikibreaks_presence and check_options: both patterns define both
\* groups, so match.group never raises IndexError
check_wikibreaks_presence(m) == "type" \in DOMAIN m
check_options(m) == "options" \in DOMAIN m

\* the Wikibreak object: the name of the template, lower-cased, and its options
Wikibreak(wikibreak_name, options) ==
    [wikibreak_name |-> LowerStr(wikibreak_name), options |-> options]

\* span=(match.start(), match.end('options'))
SpanToOptionsEnd(m) == <<m.start, m.end - 2>>

\* span=(match.start(), match.end())
Span(m) == <<m.start, m.end>>

\* CaptureResult(data=wikipause_obj, span=(match.start(), match.end()))
CaptureResult(m) ==
    [data |-> Wikibreak(m.type,
                        IF check_options(m) THEN ParseOptions(m.options) ELSE <<>>),
     span |-> Span(m)]

----------------------------------------------------------------------------
(* The inputs: vocabularies and texts *)

MaxPadding == 3     \* longest run of spaces and underscores after a name
MaxOptionsLen == 4  \* longest options text of the option-bearing family
MaxPieces == 3      \* most pieces of a text made of several templates

RECURSIVE Concat(_)
\* the concatenation of a sequence of strings
Concat(ss) == IF ss = <<>> THEN <<>> ELSE Head(ss) \o Concat(Tail(ss))

\* the sequences over S of length at most n
SeqsUpTo(S, n) == UNION {[1..k -> S] : k \in 0..n}

OPEN == <<"{", "{">>
CLOSE == <<"}", "}">>
PIPE == <<"|">>

\* the vocabularies: plain names and a hyphenated name; a name of several
\* words, written with a capital; and a vocabulary with an empty name
Vocabularies ==
    { << <<"a">>, <<"b", "-", "a">> >>,
      << <<"A", " ", "b">>, <<"b">> >>,
      << <<>>, <<"a">> >> }

\* the names written in the texts: the names of the vocabularies in several
\* letter cases, the several-word name without its space, an unknown name
NameForms ==
    { <<"a">>, <<"A">>, <<"b">>, <<"b", "-", "a">>, <<"B", "-", "a">>,
      <<"a", " ", "b">>, <<"A", " ", "b">>, <<"a", "b">>, <<"x">> }

\* option tokens: no pipe, brace, underscore or surrounding whitespace
Tokens == { <<"x">>, <<"X">>, <<"x", " ", "x">> }

\* "{{T|a|b|c}}"
ThreeOptionTexts ==
    { Concat(<<OPEN, n, PIPE, a, PIPE, b, PIPE, c, CLOSE>>) :
        n \in NameForms, a \in Tokens, b \in Tokens, c \in Tokens }

\* "{{" W1 T W2 "}}"
EmptyShapeTexts ==
    { Concat(<<OPEN, w1, n, w2, CLOSE>>) :
        w1 \in {<<>>, <<" ">>, <<"_">>, <<"\n">>},
        n \in NameForms,
        w2 \in SeqsUpTo({" ", "_"}, MaxPadding) }

\* "{{" T W "|" options "}}"
OptionTexts ==
    { Concat(<<OPEN, n, w, PIPE, o, CLOSE>>) :
        n \in {<<"a">>},
        w \in {<<>>, <<"_">>, <<"\n">>},
        o \in SeqsUpTo({"x", "|", " ", "_"}, MaxOptionsLen) }

\* the pieces of the texts that hold several templates, stray braces and
\* other text
Pieces ==
    { Concat(<<OPEN, <<"a">>, CLOSE>>),
      Concat(<<OPEN, <<"a">>, PIPE, <<"x">>, CLOSE>>),
      Concat(<<OPEN, <<"B", "-", "a">>, PIPE, CLOSE>>),
      Concat(<<OPEN, CLOSE>>),
      Concat(<<OPEN, PIPE, <<"x">>, CLOSE>>),
      Concat(<<OPEN, <<"a">>, PIPE>>),
      CLOSE, <<"{">>, <<"x">> }

PieceTexts == { Concat(ps) : ps \in SeqsUpTo(Pieces, MaxPieces) }

Texts == ThreeOptionTexts \cup EmptyShapeTexts \cup OptionTexts \cup PieceTexts

----------------------------------------------------------------------------
(* wikibreaks_extractor *)

NumPatterns == 2 * Len(all_wikibreaks_words)

\* the pattern of the outer loop
CurrentPattern == WIKIBREAKS_REs(all_wikibreaks_words)[pattern]

\* the match the inner loop receives next
CurrentMatch == NextMatch(CurrentPattern, text, pos)

Init ==
    /\ all_wikibreaks_words \in Vocabularies
    /\ text \in Texts
    /\ pattern = 1
    /\ pos = 0
    /\ matches = <<>>
    /\ yielded = <<>>
    /\ errors = <<>>
    /\ pc = "scan"

\* a match with a name: the CaptureResult is yielded and finditer resumes
\* at the end of the match
Yield ==
    /\ pc = "scan"
    /\ pattern <= NumPatterns
    /\ LET match == CurrentMatch
       IN  /\ match.found
           /\ check_wikibreaks_presence(match)
           /\ match.type # <<>>
           /\ matches' = Append(matches, [pattern |-> pattern, match |-> match])
           /\ yielded' = Append(yielded, CaptureResult(match))
           /\ pos' = match.end
    /\ UNCHANGED <<all_wikibreaks_words, text, pattern, errors, pc>>

\* a match without a name: write_error(pattern, match), then return, which
\* ends the generator
WriteError ==
    /\ pc = "scan"
    /\ pattern <= NumPatterns
    /\ LET match == CurrentMatch
       IN  /\ match.found
           /\ check_wikibreaks_presence(match)
           /\ match.type = <<>>
           /\ matches' = Append(matches, [pattern |-> pattern, match |-> match])
           /\ errors' = Append(errors, [pattern |-> pattern, match |-> match])
    /\ pc' = "done"
    /\ UNCHANGED <<all_wikibreaks_words, text, pattern, pos, yielded>>

\* finditer has no further match: the outer loop takes the next pattern, and
\* the generator ends after the last one
NextPattern ==
    /\ pc = "scan"
    /\ pattern <= NumPatterns
    /\ ~CurrentMatch.found
    /\ pattern' = pattern + 1
    /\ pos' = 0
    /\ pc' = IF pattern = NumPatterns THEN "done" ELSE "scan"
    /\ UNCHANGED <<all_wikibreaks_words, text, matches, yielded, errors>>

Next == Yield \/ WriteError \/ NextPattern

Spec == Init /\ [][Next]_vars

----------------------------------------------------------------------------
(* Properties *)

Done == pc = "done"

Results == 1..Len(yielded)

\* the compiled pattern that produced the k-th result
Matcher(k) == WIKIBREAKS_REs(all_wikibreaks_words)[matches[k].pattern]

Disjoint(sp1, sp2) == sp1[2] <= sp2[1] \/ sp2[2] <= sp1[1]

Contains(s, c) == \E i \in 1..Len(s) : s[i] = c

ContainsClose(s) == \E i \in 1..Len(s) : CloseAt(s, i)

RECURSIVE JoinPipe(_)
\* '|'.join(options)
JoinPipe(ss) ==
    IF ss = <<>> THEN <<>>
    ELSE IF Len(ss) = 1 THEN ss[1]
    ELSE ss[1] \o PIPE \o JoinPipe(Tail(ss))

\* the options text between its first and its last character that is not
\* whitespace, without its underscores
Trimmed(raw) ==
    LET inked == {i \in 1..Len(raw) : ~IsSpace(raw[i])}
        core == IF inked = {} THEN <<>> ELSE SubSeq(raw, Min(inked), Max(inked))
    IN  SelectSeq(core, LAMBDA c : c # "_")

\* t is "{{" W1 T W2 "}}" for runs W1, W2 of whitespace and underscores
IsEmptyShapeOf(t, T) ==
    /\ OpenAt(t, 1)
    /\ LET p == SkipSpaces(t, 3)
       IN  /\ p + Len(T) + 1 <= Len(t)
           /\ SubSeq(t, p, p + Len(T) - 1) = T
           /\ SkipSpaces(t, p + Len(T)) = Len(t) - 1
           /\ CloseAt(t, Len(t) - 1)

\* C1: for every name T of the vocabulary and every text "{{T|a|b|c}}" with
\* tokens a, b, c, the extractor yields exactly one result, whose options
\* are <<a, b, c>> and whose span is (0, len(text)).
C1_ThreeOptions ==
    \A i \in 1..Len(all_wikibreaks_words) : \A a \in Tokens, b \in Tokens, c \in Tokens :
        (/\ Done
         /\ text = Concat(<<OPEN, all_wikibreaks_words[i], PIPE, a, PIPE, b, PIPE, c, CLOSE>>))
        => /\ Len(yielded) = 1
           /\ yielded[1].data.options = <<a, b, c>>
           /\ yielded[1].span = <<0, Len(text)>>

\* C2: for every (non-empty) name T of the vocabulary and every text
\* "{{" W1 T W2 "}}", W1 and W2 runs of whitespace and underscores, the
\* extractor yields exactly one result and its options are empty.
C2_EmptyShape ==
    \A i \in 1..Len(all_wikibreaks_words) :
        (/\ Done
         /\ all_wikibreaks_words[i] # <<>>
         /\ IsEmptyShapeOf(text, all_wikibreaks_words[i]))
        => /\ Len(yielded) = 1
           /\ yielded[1].data.options = <<>>

C4_NameInVocabulary ==
    \A k \in Results : \E i \in 1..Len(all_wikibreaks_words) :
        LowerStr(yielded[k].data.wikibreak_name) = LowerStr(all_wikibreaks_words[i])

\* C5: the options of every result are the captured options text, trimmed of
\* its leading and trailing whitespace and without its underscores, cut at
\* its pipes: the segments hold no pipe, joined by pipes they give that text
\* back verbatim, and there is no option exactly when that text is empty.
C5_OptionsNormalized ==
    \A k \in Results :
        LET options == yielded[k].data.options
            ref == Trimmed(matches[k].match.options)
        IN  /\ JoinPipe(options) = ref
            /\ \A j \in 1..Len(options) : ~Contains(options[j], "|")
            /\ (options = <<>>) <=> (ref = <<>>)

\* C5 witness: a result of several options, one of them with whitespace next
\* to the pipe, from a capture that held an underscore
C5_Witness ==
    \E k \in Results :
        /\ Len(yielded[k].data.options) >= 2
        /\ Contains(matches[k].match.options, "_")
        /\ \E j \in 1..Len(yielded[k].data.options) :
              LET o == yielded[k].data.options[j]
              IN  o # <<>> /\ IsSpace(o[Len(o)])

\* C6: a match without a name stops its own matcher only: once the extractor
\* has ended, every match of every other matcher (of a non-empty name) has
\* been yielded.
C6_OtherMatchersRun ==
    Done =>
        \A p \in 1..NumPatterns :
            LET re == WIKIBREAKS_REs(all_wikibreaks_words)[p]
                all == finditer(re, text, 0)
            IN  (re.name # <<>> /\ \A e \in 1..Len(errors) : errors[e].pattern # p)
                => \A j \in 1..Len(all) :
                      \E k \in Results :
                          matches[k].pattern = p /\ yielded[k].span = Span(all[j])

\* C7: the span (start, end) of every result satisfies
\* 0 <= start < end <= len(text), and text[start:end] begins with "{{" and
\* ends with "}}".
C7_SpanWellFormed ==
    \A k \in Results :
        LET start == yielded[k].span[1]
            end == yielded[k].span[2]
        IN  /\ 0 <= start /\ start < end /\ end <= Len(text)
            /\ OpenAt(text, start + 1)
            /\ end - 1 >= start + 3
            /\ CloseAt(text, end - 1)

\* C7 witness: a result whose template lies strictly inside the text
C7_Witness ==
    \E k \in Results : yielded[k].span[1] > 0 /\ yielded[k].span[2] < Len(text)

\* within one matcher the results go left to right and do not overlap
OrderedWithinMatcher(j, k) ==
    matches[j].pattern = matches[k].pattern
    => /\ yielded[j].span[1] < yielded[k].span[1]
       /\ yielded[j].span[2] <= yielded[k].span[1]

\* C8 as stated: the results are grouped by matcher, for each entry of the
\* vocabulary in order its option-bearing matches and then its empty-shape
\* matches; within one matcher they go left to right and do not overlap.
C8_GroupedByEntry ==
    \A j \in Results : \A k \in Results :
        j < k =>
            /\ Matcher(j).word <= Matcher(k).word
            /\ (Matcher(j).word = Matcher(k).word
                => (Matcher(j).shape = "pattern" \/ Matcher(k).shape = "empty"))
            /\ OrderedWithinMatcher(j, k)

\* C8 amended: the results are grouped by matcher, first the option-bearing
\* matches of every entry in vocabulary order, then the empty-shape matches
\* of every entry in vocabulary order; within one matcher they go left to
\* right and do not overlap.
C8_GroupedByShape ==
    \A j \in Results : \A k \in Results :
        j < k =>
            /\ (Matcher(j).shape = "pattern" \/ Matcher(k).shape = "empty")
            /\ (Matcher(j).shape = Matcher(k).shape
                => Matcher(j).word <= Matcher(k).word)
            /\ OrderedWithinMatcher(j, k)

\* C8 witness: two results of one matcher and, after them, the result of an
\* empty-shape matcher of an earlier entry than an option-bearing one
C8_Witness ==
    /\ \E j \in Results : \E k \in Results :
          j < k /\ matches[j].pattern = matches[k].pattern
    /\ \E j \in Results : \E k \in Results :
          /\ j < k
          /\ Matcher(j).shape = "pattern" /\ Matcher(k).shape = "empty"
          /\ Matcher(k).word < Matcher(j).word

\* C9: in every option-bearing match the captured options hold no "{", the
\* match ends at the first "}}" after the pipe, and no option holds "}}".
C9_OptionsStopAtFirstClose ==
    \A k \in Results :
        Matcher(k).shape = "pattern" =>
            LET m == matches[k].match
                first == m.end - 2 - Len(m.options) + 1
            IN  /\ ~Contains(m.options, "{")
                /\ \A e \in first..(m.end - 2) : ~CloseAt(text, e)
                /\ \A j \in 1..Len(yielded[k].data.options) :
                      ~ContainsClose(yielded[k].data.options[j])

\* C10: the option-bearing matcher and the empty-shape matcher of one entry
\* of the vocabulary never report the same occurrence: their spans are
\* disjoint.
C10_ShapesDisjoint ==
    \A j \in Results : \A k \in Results :
        (Matcher(j).word = Matcher(k).word /\ Matcher(j).shape # Matcher(k).shape)
        => Disjoint(yielded[j].span, yielded[k].span)

\* C10 witness: both matchers of one entry have yielded a result
C10_Witness ==
    \E j \in Results : \E k \in Results :
        /\ Matcher(j).word = Matcher(k).word
        /\ Matcher(j).shape = "pattern"
        /\ Matcher(k).shape = "empty"

====
